---- MODULE Spec2Model ----
(***************************************************************************)
(* Pingu host monitor: the per-target outage state machine                 *)
(* (core/state.py), the asyncio scheduler (core/monitor.py), the notifier  *)
(* boundary (core/notify.py) and the GUI operations that edit the live     *)
(* target list, the settings and the monitoring session                    *)
(* (gui/targets_tab.py, gui/main_window.py).                               *)
(*                                                                         *)
(* Granularity: one action per coroutine step (the code between two        *)
(* awaits that really suspend) and one action per GUI handler.  The GUI    *)
(* thread and each session's event-loop thread interleave freely.          *)
(***************************************************************************)
EXTENDS Naturals, Sequences, FiniteSets, TLC

\* ---------------------------------------------------------------- bounds
MaxCalls == 6        \* calls made on the OutageState under unit test
MaxObjs == 2         \* TargetConfig objects ever created by "Add target"
MaxSessions == 2     \* monitoring sessions ever started
MaxConc == 2         \* largest value of the concurrency setting
MaxOut == 2          \* lines in the output of the ping command
MaxCallers == 4      \* tasks calling one OutageState concurrently

Aliases == {"A", "New"}
Reasons == {"TIMEOUT", "UNREACHABLE", "ERROR"}
ObjIds == 1..MaxObjs
SessIds == 1..MaxSessions
LoopIds == SessIds \X ObjIds

VARIABLES
  ost,                    \* OutageState._state of the instance under unit test
  calls,                  \* the calls made on it, with what each returned
  objs,                   \* TargetConfig objects: [alias, enabled]
  nobj,                   \* number of TargetConfig objects created so far
  targets,                \* MonitorState.targets: the live list (object ids)
  concurrency,            \* MonitorState.concurrency
  notifications_enabled,  \* MonitorState.notifications_enabled
  sound_on_down,          \* MonitorState.sound_on_down
  jitter_ms,              \* MonitorState.jitter_ms: <<min, max>>
  sem,                    \* MonitorState._sem: [cap, value, waiters, loop]
  outage_states,          \* MonitorState.outage_states: alias -> status
  monitor_task,           \* MainWindow._monitor_task: 0 is None
  sessions,               \* the run_monitor tasks started so far
  loops,                  \* the schedule_target tasks: [pc, cur]
  ev,                     \* observer: what the latest step delivered/published
  hist,                   \* observer: one alias and its current run of failed cycles
  offPub,                 \* observer: per target, updates published since it is off
  offProbe,               \* observer: a cycle was begun for an alias that is off
  began,                  \* observer: the cycles in flight, in the order they began
  wasOff,                 \* observer: the loops whose target was disabled while they ran
  resolved,               \* observer: the alias each cycle in flight was started for
  scheduled,              \* observer: the loops that have been started
  _queue,                 \* MonitorState._queue: the updates put on the asyncio queue
  thread_safe_queue,      \* MonitorState.thread_safe_queue: [present, items]
  completed,              \* observer: the cycles that ran to their end
  ping                    \* one run_ping call and the display of its result

outageVars == <<ost, calls, ping>>
targetVars == <<objs, nobj, targets>>
settingVars == <<concurrency, notifications_enabled, sound_on_down, jitter_ms>>
queueVars == <<_queue, thread_safe_queue, completed>>
obsVars == <<ev, hist, offPub, offProbe, began, wasOff, resolved, scheduled, queueVars>>
coreVars == <<objs, nobj, targets, concurrency, notifications_enabled,
              sound_on_down, jitter_ms, sem, outage_states, monitor_task, sessions, loops>>
vars == <<ost, calls, objs, nobj, targets, concurrency, notifications_enabled,
          sound_on_down, jitter_ms, sem, outage_states, monitor_task, sessions,
          loops, ev, hist, offPub, offProbe, began, wasOff, resolved, scheduled,
          _queue, thread_safe_queue, completed, ping>>

\* ------------------------------------------------------ core/state.py
record_success_silent(s) ==
  [state |-> "UP", ret |-> <<s, FALSE>>]

record_success_keeps_down(s) ==
  IF s = "DOWN"
    THEN [state |-> "DOWN", ret |-> <<"DOWN", TRUE>>]
    ELSE [state |-> "UP", ret |-> <<s, FALSE>>]

record_success_flag_always(s) ==
  [state |-> "UP", ret |-> <<s, TRUE>>]

\* OutageState.record_success: the new status and the returned pair.
record_success(s) ==
  IF s = "DOWN"
    THEN [state |-> "UP", ret |-> <<"DOWN", TRUE>>]
    ELSE [state |-> "UP", ret |-> <<s, FALSE>>]

\* Every caller sees the status the object was created with.
record_failure_stale(s) ==
  [state |-> "DOWN", ret |-> <<"UP", TRUE>>]

record_failure_flag_always(s) ==
  [state |-> "DOWN", ret |-> <<s, TRUE>>]

\* OutageState.record_failure: the new status and the returned pair.
record_failure(s) ==
  IF s = "UP"
    THEN [state |-> "DOWN", ret |-> <<"UP", TRUE>>]
    ELSE [state |-> "DOWN", ret |-> <<"DOWN", FALSE>>]

\* ----------------------------------------------------- target list
InList(tg, o) == \E i \in 1..Len(tg) : tg[i] = o

\* next((t for t in state.targets if t.alias == alias), None); 0 is None
Resolve(tg, ob, a) ==
  LET idx == {i \in 1..Len(tg) : ob[tg[i]].alias = a}
  IN IF idx = {} THEN 0
     ELSE tg[CHOOSE i \in idx : \A j \in idx : i <= j]

\* not (not current or not current.enabled)
On(tg, ob, a) == Resolve(tg, ob, a) # 0 /\ ob[Resolve(tg, ob, a)].enabled

HasDup(tg, ob) ==
  \E i, j \in 1..Len(tg) : i < j /\ ob[tg[i]].alias = ob[tg[j]].alias

RemoveAt(sq, i) == [k \in 1..(Len(sq) - 1) |-> IF k < i THEN sq[k] ELSE sq[k + 1]]

\* ------------------------------------------- MonitorState.ensure_structures
EnsureSem_extra_permit(sm, c) ==
  IF sm.cap = 0
    THEN [cap |-> c, value |-> c + 1, waiters |-> <<>>, loop |-> 0]
    ELSE sm

EnsureSem(sm, c) ==
  IF sm.cap = 0
    THEN [cap |-> c, value |-> c, waiters |-> <<>>, loop |-> 0]
    ELSE sm

\* Every target of the list gets a new OutageState, also one that has one.
EnsureOutage_replaces(os, tg, ob) ==
  [a \in Aliases |->
     IF \E i \in 1..Len(tg) : ob[tg[i]].alias = a THEN "UP" ELSE os[a]]

EnsureOutage(os, tg, ob) ==
  [a \in Aliases |->
     IF os[a] = "none" /\ (\E i \in 1..Len(tg) : ob[tg[i]].alias = a)
       THEN "UP" ELSE os[a]]

\* ------------------------------------------------- gui/targets_tab.py
_add_row ==
  /\ nobj < MaxObjs
  /\ nobj' = nobj + 1
  /\ objs' = [objs EXCEPT ![nobj + 1] = [alias |-> "New", enabled |-> TRUE]]
  /\ targets' = Append(targets, nobj + 1)
  /\ UNCHANGED <<outageVars, settingVars, sem, outage_states, monitor_task,
                 sessions, loops>>

_edit_row(row) ==
  /\ row \in 1..Len(targets)
  /\ objs' = [objs EXCEPT ![targets[row]].enabled = ~@]
  /\ UNCHANGED <<outageVars, settingVars, nobj, targets, sem, outage_states,
                 monitor_task, sessions, loops>>

_remove_row(row) ==
  /\ row \in 1..Len(targets)
  /\ targets' = RemoveAt(targets, row)
  /\ UNCHANGED <<outageVars, settingVars, nobj, objs, sem, outage_states,
                 monitor_task, sessions, loops>>

\* Import of a JSON file listing targets with the aliases als: the live list
\* becomes a list of new TargetConfig objects.
_import_json(als) ==
  /\ nobj + Len(als) <= MaxObjs
  /\ nobj' = nobj + Len(als)
  /\ objs' = [o \in ObjIds |->
               IF o > nobj /\ o <= nobj + Len(als)
                 THEN [alias |-> als[o - nobj], enabled |-> TRUE]
                 ELSE objs[o]]
  /\ targets' = [i \in 1..Len(als) |-> nobj + i]
  /\ UNCHANGED <<outageVars, settingVars, sem, outage_states, monitor_task,
                 sessions, loops>>

\* column 0: t.alias = text.strip() or "Unnamed"
_on_cell_changed(row, a) ==
  /\ row \in 1..Len(targets)
  /\ a # objs[targets[row]].alias
  /\ objs' = [objs EXCEPT ![targets[row]].alias = a]
  /\ UNCHANGED <<outageVars, settingVars, nobj, targets, sem, outage_states,
                 monitor_task, sessions, loops>>

\* ------------------------------------------------- gui/main_window.py
DEFAULT_JITTER_MS == <<0, 300>>

\* random.randint(a, b): the values it can return; none when a > b, and the
\* call raises ValueError.
randint(a, b) == a..b

_set_config(c, j, n, s) ==
  /\ <<c, j, n, s>> # <<concurrency, jitter_ms, notifications_enabled, sound_on_down>>
  /\ concurrency' = c
  /\ jitter_ms' = j
  /\ notifications_enabled' = n
  /\ sound_on_down' = s
  /\ UNCHANGED <<outageVars, targetVars, sem, outage_states, monitor_task,
                 sessions, loops>>

\* The session's event loop is still running its run_monitor task.
LoopOpen(ss, lp, s) ==
  \/ ss[s].st = "new"
  \/ ss[s].st = "run" /\ \E o \in ObjIds : lp[<<s, o>>].pc # "none"

_start_monitor ==
  /\ monitor_task = 0
  /\ Len(sessions) < MaxSessions
  /\ sem' = EnsureSem(sem, concurrency)
  /\ outage_states' = EnsureOutage(outage_states, targets, objs)
  /\ sessions' = Append(sessions, [st |-> "new", cancelReq |-> FALSE])
  /\ monitor_task' = Len(sessions) + 1
  /\ UNCHANGED <<outageVars, targetVars, settingVars, loops>>

_stop_monitor ==
  /\ monitor_task # 0
  /\ sessions' = IF LoopOpen(sessions, loops, monitor_task)
                   THEN [sessions EXCEPT ![monitor_task].cancelReq = TRUE]
                   ELSE sessions
  /\ monitor_task' = 0
  /\ UNCHANGED <<outageVars, targetVars, settingVars, sem, outage_states,
                 loops>>

\* ------------------------------------------------- asyncio.Semaphore
\* Semaphore.locked(): no free permit, or somebody is already queued.
Locked(sm) == sm.value = 0 \/ sm.waiters # <<>>

RemoveWaiter(sm, l) ==
  [sm EXCEPT !.waiters = SelectSeq(@, LAMBDA w : w # l)]

FirstPending(sm, lp) ==
  LET idx == {i \in 1..Len(sm.waiters) : lp[sm.waiters[i]].pc = "wait"}
  IN IF idx = {} THEN 0 ELSE CHOOSE i \in idx : \A j \in idx : i <= j

\* The waiter is never woken.
WakeNext_lost(sm, lp, ss) ==
  [sem |-> sm, loops |-> lp, woke |-> FALSE, err |-> FALSE]

\* Semaphore._wake_up_next: hand a permit to the first waiter whose future
\* is not done.  Setting the result of a future of a closed event loop
\* raises (err) after the permit was taken.
WakeNext(sm, lp, ss) ==
  LET i == FirstPending(sm, lp)
  IN IF i = 0
       THEN [sem |-> sm, loops |-> lp, woke |-> FALSE, err |-> FALSE]
       ELSE [sem |-> [sm EXCEPT !.value = @ - 1],
             loops |-> [lp EXCEPT ![sm.waiters[i]].pc = "granted"],
             woke |-> TRUE,
             err |-> ss[sm.waiters[i][1]].st = "crashed"]

\* Semaphore.release
Release(sm, lp, ss) == WakeNext([sm EXCEPT !.value = @ + 1], lp, ss)

\* "while self._value > 0: if not self._wake_up_next(): break"
RECURSIVE WakeWhile(_, _, _)
WakeWhile(sm, lp, ss) ==
  IF sm.value = 0
    THEN [sem |-> sm, loops |-> lp, woke |-> FALSE, err |-> FALSE]
    ELSE LET w == WakeNext(sm, lp, ss)
         IN IF ~w.woke \/ w.err THEN w ELSE WakeWhile(w.sem, w.loops, ss)

Crash(ss, s) == [ss EXCEPT ![s] = [st |-> "crashed", cancelReq |-> FALSE]]

\* ---------------------------------------------------- core/monitor.py
\* run_monitor up to its first await: one schedule_target task per enabled
\* target, each going to sleep for its startup jitter; a task whose
\* random.randint raises ends at once and run_monitor ends with its error.
run_monitor(s) ==
  /\ s \in 1..Len(sessions)
  /\ sessions[s].st = "new"
  /\ sem' = EnsureSem(sem, concurrency)
  /\ outage_states' = EnsureOutage(outage_states, targets, objs)
  /\ loops' = [l \in LoopIds |->
                 IF /\ l[1] = s /\ InList(targets, l[2]) /\ objs[l[2]].enabled
                    /\ randint(jitter_ms[1], jitter_ms[2]) # {}
                   THEN [pc |-> "sleep", cur |-> 0] ELSE loops[l]]
  /\ sessions' = IF /\ \E o \in ObjIds : InList(targets, o) /\ objs[o].enabled
                    /\ randint(jitter_ms[1], jitter_ms[2]) = {}
                   THEN Crash(sessions, s)
                   ELSE [sessions EXCEPT ![s].st = "run"]
  /\ UNCHANGED <<outageVars, targetVars, settingVars, monitor_task>>

\* schedule_target from the end of a sleep to the next await: re-resolve the
\* target by alias, return or enter run_one_target and acquire the limiter.
schedule_target(l) ==
  LET s == l[1]
      cur == Resolve(targets, objs, objs[l[2]].alias)
      sm == EnsureSem(sem, concurrency)
  IN /\ s \in 1..Len(sessions)
     /\ sessions[s].st = "run"
     /\ loops[l].pc = "sleep"
     /\ IF cur = 0 \/ ~objs[cur].enabled
          THEN /\ loops' = [loops EXCEPT ![l] = [pc |-> "none", cur |-> 0]]
               /\ UNCHANGED <<sem, outage_states, sessions>>
          ELSE /\ outage_states' = EnsureOutage(outage_states, targets, objs)
               /\ IF ~Locked(sm)
                    THEN /\ sem' = [sm EXCEPT !.value = @ - 1]
                         /\ loops' = [loops EXCEPT ![l] = [pc |-> "probe", cur |-> cur]]
                         /\ UNCHANGED sessions
                    ELSE IF sm.loop \in {0, s}
                      THEN /\ sem' = [sm EXCEPT !.loop = s, !.waiters = Append(@, l)]
                           /\ loops' = [loops EXCEPT ![l] = [pc |-> "wait", cur |-> cur]]
                           /\ UNCHANGED sessions
                      ELSE /\ sem' = sm
                           /\ loops' = [loops EXCEPT ![l] = [pc |-> "none", cur |-> 0]]
                           /\ sessions' = Crash(sessions, s)
     /\ UNCHANGED <<outageVars, targetVars, settingVars, monitor_task>>

\* A waiter that was handed a permit resumes inside Semaphore.acquire and
\* run_one_target starts its probe.
sem_acquired(l) ==
  LET s == l[1]
      w == WakeWhile(RemoveWaiter(sem, l),
                     [loops EXCEPT ![l].pc = "probe"], sessions)
  IN /\ s \in 1..Len(sessions)
     /\ sessions[s].st = "run"
     /\ loops[l].pc = "granted"
     /\ sem' = w.sem
     /\ loops' = IF w.err THEN [w.loops EXCEPT ![l] = [pc |-> "none", cur |-> 0]]
                 ELSE w.loops
     /\ sessions' = IF w.err THEN Crash(sessions, s) ELSE sessions
     /\ UNCHANGED <<outageVars, targetVars, settingVars, outage_states,
                    monitor_task>>

notify_calls_sound_ignores_setting(alias, success, reason, flag, ne, sd) ==
  IF success
    THEN IF flag /\ ne
           THEN <<[kind |-> "up", alias |-> alias, reason |-> "", play_sound |-> FALSE]>>
           ELSE <<>>
    ELSE IF ne
           THEN <<[kind |-> "down", alias |-> alias, reason |-> reason, play_sound |-> flag]>>
           ELSE <<>>

notify_calls_every_success(alias, success, reason, flag, ne, sd) ==
  IF success
    THEN IF ne
           THEN <<[kind |-> "up", alias |-> alias, reason |-> "", play_sound |-> FALSE]>>
           ELSE <<>>
    ELSE IF ne
           THEN <<[kind |-> "down", alias |-> alias, reason |-> reason, play_sound |-> flag /\ sd]>>
           ELSE <<>>

notify_calls_sound_every_failure(alias, success, reason, flag, ne, sd) ==
  IF success
    THEN IF flag /\ ne
           THEN <<[kind |-> "up", alias |-> alias, reason |-> "", play_sound |-> FALSE]>>
           ELSE <<>>
    ELSE IF ne
           THEN <<[kind |-> "down", alias |-> alias, reason |-> reason, play_sound |-> sd]>>
           ELSE <<>>

\* The notify.notify calls of one cycle of run_one_target, in order:
\* "<alias> is reachable again." (kind up), "<alias> is DOWN: <reason>."
\* (kind down).
notify_calls(alias, success, reason, flag, ne, sd) ==
  IF success
    THEN IF flag /\ ne
           THEN <<[kind |-> "up", alias |-> alias, reason |-> "", play_sound |-> FALSE]>>
           ELSE <<>>
    ELSE IF ne
           THEN IF flag /\ sd
                  THEN <<[kind |-> "down", alias |-> alias, reason |-> reason, play_sound |-> TRUE]>>
                  ELSE <<[kind |-> "down", alias |-> alias, reason |-> reason, play_sound |-> FALSE]>>
           ELSE <<>>

\* What the cycle of loop l computes once run_ping has returned (success,
\* reason): the alias it reads from its target, the OutageState it gets or
\* lazily creates, the record_* call, the notifications and the update.
cycle(l, success, reason) ==
  LET alias == objs[loops[l].cur].alias
      st0 == IF outage_states[alias] = "none" THEN "UP" ELSE outage_states[alias]
      r == IF success THEN record_success(st0) ELSE record_failure(st0)
  IN [kind |-> "cycle", obj |-> loops[l].cur, alias |-> alias,
      success |-> success, reason |-> reason,
      created |-> (outage_states[alias] = "none"),
      state |-> r.state, prev |-> r.ret[1], flag |-> r.ret[2],
      notes |-> notify_calls(alias, success, reason, r.ret[2],
                             notifications_enabled, sound_on_down),
      pub |-> <<[alias |-> alias, success |-> success]>>]

\* run_one_target from the return of run_ping to the sleep that follows the
\* cycle: outage state, notification, update, release of the limiter, and
\* the draw of the jitter of that sleep.
run_one_target(l, success, reason) ==
  LET s == l[1]
      c == cycle(l, success, reason)
      rel == Release(sem, [loops EXCEPT ![l] = [pc |-> "sleep", cur |-> 0]], sessions)
      err == rel.err \/ randint(jitter_ms[1], jitter_ms[2]) = {}
  IN /\ s \in 1..Len(sessions)
     /\ sessions[s].st = "run"
     /\ loops[l].pc = "probe"
     /\ outage_states' = EnsureOutage([outage_states EXCEPT ![c.alias] = c.state],
                                      targets, objs)
     /\ sem' = rel.sem
     /\ loops' = IF err THEN [rel.loops EXCEPT ![l] = [pc |-> "none", cur |-> 0]]
                 ELSE rel.loops
     /\ sessions' = IF err THEN Crash(sessions, s) ELSE sessions
     /\ UNCHANGED <<outageVars, targetVars, settingVars, monitor_task>>

\* The free permits of the limiter while the cycle records its result,
\* notifies and publishes: all of it is inside "async with state.sem", so
\* the permit of the cycle itself is still taken.
free_at_publish == sem.value

notify_propagates(notes, raises) ==
  [delivered |-> IF raises THEN <<>> ELSE notes, error |-> raises /\ notes # <<>>]

\* notify.notify for the notify calls of one cycle: each invokes the
\* installed callback once; an Exception the callback raises is logged and
\* swallowed, nothing is retried.
notify(notes, raises) ==
  [delivered |-> IF raises THEN <<>> ELSE notes, error |-> FALSE]

\* run_one_target left by an exception of the notify call: the OutageState
\* was already updated, "async with state.sem" gives the slot back, nothing
\* is published and the exception ends the loop's task and, through gather,
\* run_monitor.
run_one_target_raise(l, success, reason) ==
  LET s == l[1]
      c == cycle(l, success, reason)
      rel == Release(sem, [loops EXCEPT ![l] = [pc |-> "none", cur |-> 0]], sessions)
  IN /\ s \in 1..Len(sessions)
     /\ sessions[s].st = "run"
     /\ loops[l].pc = "probe"
     /\ outage_states' = EnsureOutage([outage_states EXCEPT ![c.alias] = c.state],
                                      targets, objs)
     /\ sem' = rel.sem
     /\ loops' = rel.loops
     /\ sessions' = Crash(sessions, s)
     /\ UNCHANGED <<outageVars, targetVars, settingVars, monitor_task>>

\* One cycle of run_one_target with a notifier callback that raises
\* (raises) or returns.
run_one_target_notify(l, success, reason, raises) ==
  /\ loops[l].pc = "probe"
  /\ IF notify(cycle(l, success, reason).notes, raises).error
       THEN run_one_target_raise(l, success, reason)
       ELSE run_one_target(l, success, reason)

\* What that cycle shows to the observer ev: kind "cycle_raised" when the
\* callback was invoked and raised.
cycle_notify(l, success, reason, raises) ==
  LET c == cycle(l, success, reason)
      n == notify(c.notes, raises)
  IN IF raises /\ c.notes # <<>>
       THEN [c EXCEPT !.kind = "cycle_raised",
                      !.pub = IF n.error THEN <<>> ELSE @]
       ELSE c

\* state.queue.put_nowait(update) on a queue that accepts the update
\* (q = "ok") or is full (q = "QueueFull"): asyncio.QueueFull is caught.
put_nowait_propagates(q) ==
  [accepted |-> q = "ok", error |-> q # "ok"]

put_nowait(q) ==
  [accepted |-> q = "ok", error |-> FALSE]

\* state.thread_safe_queue.put(update, block=False): no such queue
\* (tq = "None"), or one that accepts the update ("ok"), is full ("Full") or
\* whose put raises another Exception ("error"); every Exception is caught.
put(tq) ==
  [accepted |-> tq = "ok", error |-> FALSE]

\* One cycle of run_one_target publishing to sinks that behave as q and tq.
run_one_target_publish(l, success, reason, q, tq) ==
  /\ loops[l].pc = "probe"
  /\ IF put_nowait(q).error \/ put(tq).error
       THEN run_one_target_raise(l, success, reason)
       ELSE run_one_target(l, success, reason)

\* What that cycle shows to the observer ev: kind "cycle_dropped" when a
\* sink did not take the update, pub and tpub what each sink received.
cycle_publish(l, success, reason, q, tq) ==
  LET c == cycle(l, success, reason)
      a == put_nowait(q)
      b == IF a.error THEN [accepted |-> FALSE, error |-> FALSE] ELSE put(tq)
  IN [f \in DOMAIN c \cup {"tpub", "q", "tq"} |->
        CASE f = "kind" -> IF q # "ok" \/ tq \in {"Full", "error"}
                             THEN "cycle_dropped" ELSE "cycle"
          [] f = "pub" -> IF a.accepted THEN c.pub ELSE <<>>
          [] f = "tpub" -> IF b.accepted THEN c.pub ELSE <<>>
          [] f = "q" -> q
          [] f = "tq" -> tq
          [] OTHER -> c[f]]

\* CancelledError thrown into every task of session s at the await it is
\* suspended on: a task in its probe leaves "async with state.sem", a waiter
\* leaves the queue (giving back a permit it was already handed).
RECURSIVE CancelTasks(_, _, _, _, _)
CancelTasks(sm, lp, ss, s, os) ==
  IF os = {} THEN [sem |-> sm, loops |-> lp]
  ELSE LET o == CHOOSE x \in os : \A y \in os : x <= y
           l == <<s, o>>
           pc == lp[l].pc
           lp1 == [lp EXCEPT ![l] = [pc |-> "none", cur |-> 0]]
           w == IF pc = "probe" THEN Release(sm, lp1, ss)
                ELSE IF pc = "granted"
                  THEN WakeWhile([RemoveWaiter(sm, l) EXCEPT !.value = @ + 1], lp1, ss)
                ELSE IF pc = "wait"
                  THEN WakeWhile(RemoveWaiter(sm, l), lp1, ss)
                ELSE [sem |-> sm, loops |-> lp1]
       IN CancelTasks(w.sem, w.loops, ss, s, os \ {o})

cancel_monitor_leaves_tasks(s) ==
  /\ s \in 1..Len(sessions)
  /\ sessions[s].cancelReq
  /\ sessions[s].st \in {"new", "run"}
  /\ sessions' = [sessions EXCEPT ![s] = [st |-> "closed", cancelReq |-> FALSE]]
  /\ UNCHANGED <<outageVars, targetVars, settingVars, outage_states,
                 monitor_task, sem, loops>>

\* The cancel that _stop_monitor posted with call_soon_threadsafe runs on the
\* session's event loop: run_monitor cancels every task and gathers them.
cancel_monitor(s) ==
  LET c == CancelTasks(sem, loops, sessions, s, ObjIds)
  IN /\ s \in 1..Len(sessions)
     /\ sessions[s].cancelReq
     /\ sessions[s].st \in {"new", "run"}
     /\ sessions' = [sessions EXCEPT ![s] = [st |-> "closed", cancelReq |-> FALSE]]
     /\ sem' = c.sem
     /\ loops' = c.loops
     /\ UNCHANGED <<outageVars, targetVars, settingVars, outage_states,
                    monitor_task>>

\* A session that ended with a loop error leaves its other tasks suspended
\* on an event loop that is closed. They are finalized at some later time,
\* once _stop_monitor has dropped the reference to the session: the coroutine
\* is closed at its await, a task inside "async with state.sem" gives its
\* slot back, a waiter leaves the queue (keeping a permit it had already
\* been handed).
RECURSIVE DestroyTasks(_, _, _, _, _)
DestroyTasks(sm, lp, ss, s, os) ==
  IF os = {} THEN [sem |-> sm, loops |-> lp]
  ELSE LET o == CHOOSE x \in os : \A y \in os : x <= y
           l == <<s, o>>
           pc == lp[l].pc
           lp1 == [lp EXCEPT ![l] = [pc |-> "none", cur |-> 0]]
           w == IF pc = "probe" THEN Release(sm, lp1, ss)
                ELSE IF pc \in {"wait", "granted"}
                  THEN [sem |-> RemoveWaiter(sm, l), loops |-> lp1]
                ELSE [sem |-> sm, loops |-> lp1]
       IN DestroyTasks(w.sem, w.loops, ss, s, os \ {o})

task_destroyed(s) ==
  LET d == DestroyTasks(sem, loops, sessions, s, ObjIds)
  IN /\ s \in 1..Len(sessions)
     /\ sessions[s].st = "crashed"
     /\ monitor_task # s
     /\ \E o \in ObjIds : loops[<<s, o>>].pc # "none"
     /\ sem' = d.sem
     /\ loops' = d.loops
     /\ UNCHANGED <<outageVars, targetVars, settingVars, outage_states,
                    monitor_task, sessions>>

\* ------------------------------------------------------- core/ping.py
\* Text is modelled line by line: the output of the ping command is a
\* sequence of at most MaxOut of these lines. Latencies are in tenths of a
\* millisecond, elapsed times in hundredths; None is <<>>.
Lines == {"Request timed out.", "TIMEOUT", "Destination Host Unreachable",
          "time=12ms", "42.5 ms", "time=1.2.3 ms", "reply"}

Outputs == UNION {[1..n -> Lines] : n \in 0..MaxOut}

\* str.lower
Lower(w) ==
  CASE w = "Request timed out." -> "request timed out."
    [] w = "TIMEOUT" -> "timeout"
    [] w = "Destination Host Unreachable" -> "destination host unreachable"
    [] OTHER -> w

\* "sub in w" for one line w (case-sensitive)
Substr(sub, w) ==
  CASE sub = "timed out" -> w \in {"Request timed out.", "request timed out."}
    [] sub = "timeout" -> w = "timeout"
    [] sub = "request timed out" -> w = "request timed out."
    [] sub = "unreachable" -> w = "destination host unreachable"
    [] OTHER -> FALSE

In(sub, out) == \E i \in 1..Len(out) : Substr(sub, out[i])

\* float(text): <<>> stands for ValueError
FloatOf(text) ==
  CASE text = "12" -> <<120>>
    [] text = "42.5" -> <<425>>
    [] text = "23" -> <<230>>
    [] text = "12.3" -> <<123>>
    [] text = "7" -> <<70>>
    [] text = "5" -> <<50>>
    [] OTHER -> <<>>

\* group 1 of r"time[=:]?\s*([\d.]+)\s*ms" (re.I) in one line, "" if none
Re1(w) ==
  CASE w = "time=12ms" -> "12"
    [] w = "time=1.2.3 ms" -> "1.2.3"
    [] w = "time=23ms" -> "23"
    [] w = "time=12.3 ms" -> "12.3"
    [] w = "TIME=23MS" -> "23"
    [] w = "time: 5 ms" -> "5"
    [] OTHER -> ""

\* group 1 of r"([\d.]+)\s*ms" in one line, "" if none
Re2(w) ==
  CASE w = "time=12ms" -> "12"
    [] w = "42.5 ms" -> "42.5"
    [] w = "time=1.2.3 ms" -> "1.2.3"
    [] w = "time=23ms" -> "23"
    [] w = "time=12.3 ms" -> "12.3"
    [] w = "7 ms" -> "7"
    [] w = "time: 5 ms" -> "5"
    [] OTHER -> ""

\* re.search of the first (n = 1) or second pattern: the leftmost match
Search(n, out) ==
  LET Re(w) == IF n = 1 THEN Re1(w) ELSE Re2(w)
      idx == {i \in 1..Len(out) : Re(out[i]) # ""}
  IN IF idx = {} THEN "" ELSE Re(out[CHOOSE i \in idx : \A j \in idx : i <= j])

_parse_latency(out) ==
  LET m1 == Search(1, out)
      f1 == IF m1 # "" THEN FloatOf(m1) ELSE <<>>
      m2 == Search(2, out)
  IN IF f1 # <<>> THEN f1
     ELSE IF m2 # "" THEN FloatOf(m2) ELSE <<>>

\* The texts _parse_latency is called on under unit test.
ParseLines == {"time=23ms", "time=12.3 ms", "42.5 ms", "42.5 MS", "TIME=23MS",
               "time: 5 ms", "7 ms", "no time here", "reply", "TIMEOUT"}

ParseTexts == UNION {[1..n -> ParseLines] : n \in 0..MaxOut}

call_parse_latency(text) ==
  /\ calls = <<>>
  /\ calls' = <<[op |-> "_parse_latency", arg |-> text,
                 ret |-> _parse_latency(text)]>>
  /\ UNCHANGED <<ost, ping, coreVars, obsVars>>

\* round(elapsed_ms, 1) of an elapsed time in hundredths of a millisecond
\* that a float holds exactly: to the nearest tenth, a half to the even one.
Round1(cs) ==
  LET q == cs \div 10
      r == cs % 10
  IN IF r > 5 \/ (r = 5 /\ q % 2 = 1) THEN q + 1 ELSE q

PingResult(success, latency_ms, reason) ==
  [kind |-> "return", success |-> success, latency_ms |-> latency_ms,
   reason |-> reason]

_interpret_unreachable_first(returncode, output, elapsed) ==
  IF returncode = 0
    THEN LET lat == _parse_latency(output)
         IN PingResult(TRUE, IF lat # <<>> THEN lat ELSE <<Round1(elapsed)>>, "OK")
    ELSE LET output_lower == [i \in 1..Len(output) |-> Lower(output[i])]
         IN PingResult(FALSE, <<>>,
              IF In("unreachable", output_lower) THEN "UNREACHABLE"
              ELSE IF \/ In("timed out", output_lower)
                      \/ In("timeout", output_lower)
                      \/ In("request timed out", output_lower)
                THEN "TIMEOUT"
              ELSE "ERROR:" \o ToString(returncode))

_interpret(returncode, output, elapsed) ==
  IF returncode = 0
    THEN LET lat == _parse_latency(output)
         IN PingResult(TRUE, IF lat # <<>> THEN lat ELSE <<Round1(elapsed)>>, "OK")
    ELSE LET output_lower == [i \in 1..Len(output) |-> Lower(output[i])]
         IN PingResult(FALSE, <<>>,
              IF \/ In("timed out", output_lower)
                 \/ In("timeout", output_lower)
                 \/ In("request timed out", output_lower)
                THEN "TIMEOUT"
              ELSE IF In("unreachable", output_lower) THEN "UNREACHABLE"
              ELSE "ERROR:" \o ToString(returncode))

\* timeout_ms // 1000: whole seconds, rounded down
_timeout_seconds_floor(timeout_ms) ==
  LET n == timeout_ms \div 1000
  IN IF n > 1 THEN n ELSE 1

_timeout_seconds(timeout_ms) ==
  LET n == (timeout_ms + 999) \div 1000
  IN IF n > 1 THEN n ELSE 1

\* The timeout in the command line of ping, in milliseconds: "-w" takes
\* milliseconds on Windows, "-W" whole seconds elsewhere.
CommandTimeout(platform, timeout_ms) ==
  IF platform = "win32" THEN timeout_ms
  ELSE _timeout_seconds(timeout_ms) * 1000

\* timeout_s of wait_for, in milliseconds
HarnessTimeout(platform, timeout_ms) ==
  IF platform = "win32" THEN timeout_ms + 2000
  ELSE _timeout_seconds(timeout_ms) * 1000 + 2000

\* Exception classes: "asyncio.TimeoutError" is what wait_for raises,
\* "TimeoutError" the builtin one (an OSError with errno ETIMEDOUT). From
\* Python 3.11 on (py311) they are one class; both are named TimeoutError.
IsTimeoutError(exc, py311) ==
  exc = "asyncio.TimeoutError" \/ (py311 /\ exc = "TimeoutError")

TypeName(exc) == IF exc = "asyncio.TimeoutError" THEN "TimeoutError" ELSE exc

run_ping_except_reraises(exc, py311) ==
  IF IsTimeoutError(exc, py311)
    THEN [kind |-> "raise", exc |-> exc]
    ELSE PingResult(FALSE, <<>>, "ERROR:" \o TypeName(exc))

run_ping_except_all_timeout(exc, py311) == PingResult(FALSE, <<>>, "TIMEOUT")

\* The except clauses of run_ping: asyncio.TimeoutError, then any other
\* Exception (an OSError has no returncode: the name of its type is used).
run_ping_except(exc, py311) ==
  IF IsTimeoutError(exc, py311)
    THEN PingResult(FALSE, <<>>, "TIMEOUT")
    ELSE PingResult(FALSE, <<>>, "ERROR:" \o TypeName(exc))

PingIdle == [pc |-> "idle", platform |-> "", py311 |-> FALSE, timeout_ms |-> 0,
             how |-> "", exc |-> "", rc |-> 0, out |-> <<>>, elapsed |-> 0,
             ret |-> <<>>, mode |-> "", detail |-> "", update |-> <<>>]

\* run_ping(host, timeout_ms) is called and reaches create_subprocess_exec
run_ping(platform, py311, timeout_ms) ==
  /\ ping.pc = "idle"
  /\ ping' = [ping EXCEPT !.pc = "start", !.platform = platform,
                          !.py311 = py311, !.timeout_ms = timeout_ms]
  /\ UNCHANGED <<ost, calls, coreVars, obsVars>>

\* asyncio.create_subprocess_exec returns the process
create_subprocess_exec ==
  /\ ping.pc = "start"
  /\ ping' = [ping EXCEPT !.pc = "communicate"]
  /\ UNCHANGED <<ost, calls, coreVars, obsVars>>

\* asyncio.create_subprocess_exec raises: the command cannot be spawned
create_subprocess_exec_raises(exc) ==
  /\ ping.pc = "start"
  /\ ping' = [ping EXCEPT !.pc = "done", !.how = "spawn_failed", !.exc = exc,
                          !.ret = run_ping_except(exc, ping.py311)]
  /\ UNCHANGED <<ost, calls, coreVars, obsVars>>

\* the command exits with code rc after elapsed (hundredths of a ms), before
\* wait_for's timeout, having written out
communicate_returns(rc, out, elapsed) ==
  /\ ping.pc = "communicate"
  /\ elapsed < HarnessTimeout(ping.platform, ping.timeout_ms) * 100
  /\ ping' = [ping EXCEPT !.pc = "done", !.how = "exited", !.rc = rc,
                          !.out = out, !.elapsed = elapsed,
                          !.ret = _interpret(rc, out, elapsed)]
  /\ UNCHANGED <<ost, calls, coreVars, obsVars>>

\* wait_for's timeout expires before the command has exited
wait_for_expires ==
  /\ ping.pc = "communicate"
  /\ ping' = [ping EXCEPT !.pc = "done", !.how = "expired",
                          !.exc = "asyncio.TimeoutError",
                          !.ret = run_ping_except("asyncio.TimeoutError", ping.py311)]
  /\ UNCHANGED <<ost, calls, coreVars, obsVars>>

\* str.upper of a detail string
Upper(d) ==
  CASE d = "ERROR:FileNotFoundError" -> "ERROR:FILENOTFOUNDERROR"
    [] d = "ERROR:PermissionError" -> "ERROR:PERMISSIONERROR"
    [] d = "ERROR:TimeoutError" -> "ERROR:TIMEOUTERROR"
    [] \E n \in 0..99 : d = ToString(n) \o "ms" ->
         ToString(CHOOSE n \in 0..99 : d = ToString(n) \o "ms") \o "MS"
    [] OTHER -> d

\* "TIMEOUT" in u, for an upper-cased detail string u
HasTIMEOUT(u) == u \in {"TIMEOUT", "ERROR:TIMEOUTERROR"}

detail_for_display(success, detail, display_mode) ==
  IF display_mode = "codes"
    THEN IF success THEN "200"
         ELSE IF HasTIMEOUT(Upper(detail)) THEN "408"
         ELSE "503"
    ELSE detail

\* f"{result.latency_ms or 0:.0f}ms" if result.latency_ms is not None
\* else "0" (a latency in tenths of a millisecond, a half to the even one)
FormatLatency(latency_ms) ==
  IF latency_ms = <<>> THEN "0" ELSE ToString(Round1(latency_ms[1])) \o "ms"

\* display_detail of run_one_target for the result of run_ping
display_detail(result, display_mode) ==
  IF result.success
    THEN detail_for_display(TRUE, FormatLatency(result.latency_ms), display_mode)
    ELSE detail_for_display(FALSE, result.reason, display_mode)

\* The detail that run_one_target shows for the result of run_ping.
display(display_mode) ==
  /\ ping.pc = "done"
  /\ ping.ret.kind = "return"
  /\ ping' = [ping EXCEPT
       !.pc = "shown", !.mode = display_mode,
       !.detail = display_detail(ping.ret, display_mode)]
  /\ UNCHANGED <<ost, calls, coreVars, obsVars>>

\* The MonitorUpdate that run_one_target builds for a target named alias.
MonitorUpdate_always_ok(alias, result, display_mode) ==
  [alias |-> alias,
   line |-> alias \o " - OK " \o display_detail(result, display_mode),
   success |-> result.success,
   detail |-> display_detail(result, display_mode),
   display_mode |-> display_mode]

MonitorUpdate(alias, result, display_mode) ==
  [alias |-> alias,
   line |-> alias \o (IF result.success THEN " - OK " ELSE " - DOWN ")
                  \o display_detail(result, display_mode),
   success |-> result.success,
   detail |-> display_detail(result, display_mode),
   display_mode |-> display_mode]

\* run_one_target once run_ping has returned, on one target and its
\* OutageState: record the result, build the update and publish it.
run_one_target_update(alias, display_mode) ==
  LET r == IF ping.ret.success THEN record_success(ost) ELSE record_failure(ost)
  IN /\ ping.pc = "done"
     /\ ping.ret.kind = "return"
     /\ ost' = r.state
     /\ ping' = [ping EXCEPT !.pc = "published", !.mode = display_mode,
                             !.update = MonitorUpdate(alias, ping.ret, display_mode)]
     /\ UNCHANGED <<calls, coreVars, obsVars>>

\* schedule_target: the next cycle of that target calls run_ping again.
next_cycle ==
  /\ ping.pc = "published"
  /\ ping' = PingIdle
  /\ UNCHANGED <<ost, calls, coreVars, obsVars>>

\* --------------------------------------------------------- observers
\* The observers record what a step delivered to the notifier and published
\* to the update sink; they never feed back into the program's state.
NoCycle == [kind |-> "none", obj |-> 0, alias |-> "", success |-> FALSE, reason |-> "",
            state |-> "", prev |-> "", flag |-> FALSE, notes |-> <<>>,
            pub |-> <<>>]

Min2(n) == IF n < 2 THEN n ELSE 2

SoundCount(notes) == Cardinality({i \in 1..Len(notes) : notes[i].play_sound})

\* ev: the outputs of the latest step.
ObsEv(d) == ev' = d

\* hist follows the cycles of one alias (hist.alias, any alias): how many of
\* them have failed in a row (run, counted up to 2), how many notifications
\* with play_sound=True this run of failed cycles has delivered (sounds,
\* counted up to 2), and whether one of them came from a cycle that was not
\* the first of the run (late).
ObsHist(d) ==
  hist' = IF d.kind = "none" \/ d.alias # hist.alias THEN hist
          ELSE IF d.success
            THEN [hist EXCEPT !.run = 0, !.sounds = 0, !.late = FALSE]
            ELSE [hist EXCEPT
                    !.run = Min2(@ + 1),
                    !.sounds = Min2(@ + SoundCount(d.notes)),
                    !.late = (@ \/ (hist.run > 0 /\ SoundCount(d.notes) > 0))]

\* offPub[o]: updates published by cycles on target o (counted up to 2)
\* since o was last disabled or removed from the live list.
ObsOff(d) ==
  offPub' = [o \in ObjIds |->
               IF InList(targets', o) /\ objs'[o].enabled THEN 0
               ELSE IF d.kind = "cycle" /\ d.obj = o THEN Min2(offPub[o] + Len(d.pub))
               ELSE offPub[o]]

\* offProbe: some loop left its sleep and entered a cycle although its alias
\* did not resolve to an enabled target at that moment.
ObsOffProbe ==
  offProbe' = (offProbe \/ \E l \in LoopIds :
                 /\ loops[l].pc = "sleep"
                 /\ loops'[l].pc \in {"wait", "probe"}
                 /\ ~On(targets, objs, objs[l[2]].alias))

\* began: the loops that are inside run_one_target, in the order in which
\* they entered it.
ObsBegan ==
  LET inc(lp, l) == lp[l].pc \in {"wait", "granted", "probe"}
      kept == SelectSeq(began, LAMBDA l : inc(loops', l))
      new == {l \in LoopIds : ~inc(loops, l) /\ inc(loops', l)}
  IN began' = IF new = {} THEN kept ELSE Append(kept, CHOOSE l \in new : TRUE)

\* wasOff: the loops that were running when the target they were created
\* for was disabled.
ObsWasOff ==
  wasOff' = wasOff \cup {l \in LoopIds : /\ loops[l].pc # "none"
                                         /\ objs[l[2]].enabled
                                         /\ ~objs'[l[2]].enabled}

\* resolved[l]: the alias of the target that schedule_target resolved when
\* loop l entered the cycle it is in ("" outside a cycle).
ObsResolved ==
  LET inc(lp, l) == lp[l].pc \in {"wait", "granted", "probe"}
  IN resolved' = [l \in LoopIds |->
                    IF ~inc(loops', l) THEN ""
                    ELSE IF ~inc(loops, l) THEN objs[loops'[l].cur].alias
                    ELSE resolved[l]]

\* scheduled: the loops for which run_monitor has created a task.
ObsScheduled ==
  scheduled' = scheduled \cup {l \in LoopIds : loops[l].pc = "none" /\ loops'[l].pc # "none"}

\* ------------------------------------------------------ specifications
Results == {[success |-> TRUE, reason |-> "OK"]}
           \cup {[success |-> FALSE, reason |-> r] : r \in Reasons}

InitCore ==
  /\ objs = [o \in ObjIds |-> [alias |-> "New", enabled |-> TRUE]]
  /\ nobj = 0
  /\ targets = <<>>
  /\ concurrency \in 1..MaxConc
  /\ notifications_enabled = TRUE
  /\ sound_on_down = TRUE
  /\ jitter_ms = DEFAULT_JITTER_MS
  /\ sem = [cap |-> 0, value |-> 0, waiters |-> <<>>, loop |-> 0]
  /\ outage_states = [a \in Aliases |-> "none"]
  /\ monitor_task = 0
  /\ sessions = <<>>
  /\ loops = [l \in LoopIds |-> [pc |-> "none", cur |-> 0]]

\* MainWindow.__init__: the MonitorState of the window with its thread-safe
\* queue; the asyncio queue, created empty by ensure_structures, has
\* received nothing.
InitQueues ==
  /\ _queue = <<>>
  /\ thread_safe_queue = [present |-> TRUE, items |-> <<>>]
  /\ completed = 0

InitObs ==
  /\ ev = NoCycle
  /\ hist \in {[alias |-> a, run |-> 0, sounds |-> 0, late |-> FALSE] : a \in Aliases}
  /\ offPub = [o \in ObjIds |-> 0]
  /\ offProbe = FALSE
  /\ began = <<>>
  /\ wasOff = {}
  /\ resolved = [l \in LoopIds |-> ""]
  /\ scheduled = {}
  /\ InitQueues

Init ==
  /\ ost = "UP"
  /\ calls = <<>>
  /\ ping = PingIdle
  /\ InitCore
  /\ InitObs

\* No cancel posted by _stop_monitor is still waiting to run.
NoPendingCancel == \A s \in 1..Len(sessions) : ~sessions[s].cancelReq

\* Editing the target list never makes two targets of the live list share an
\* alias.
Unique == ~HasDup(targets', objs')

\* A step that runs no cycle, as the observers offPub and offProbe see it.
NoCycleOff == ObsOff(NoCycle) /\ ObsOffProbe /\ UNCHANGED <<ev, hist, began, wasOff, resolved, scheduled, queueVars>>

\* One monitoring session, during which the user edits the target list and
\* toggles the notification settings; the configured concurrency is the one
\* loaded at start-up.
Next ==
  \/ _add_row /\ Unique /\ NoCycleOff
  \/ \E row \in 1..MaxObjs : _edit_row(row) /\ Unique /\ NoCycleOff
  \/ \E row \in 1..MaxObjs : _remove_row(row) /\ Unique /\ NoCycleOff
  \/ \E row \in 1..MaxObjs, a \in Aliases :
       _on_cell_changed(row, a) /\ Unique /\ NoCycleOff
  \/ \E n \in BOOLEAN, s \in BOOLEAN : _set_config(concurrency, jitter_ms, n, s) /\ NoCycleOff
  \/ _start_monitor /\ sessions = <<>> /\ NoCycleOff
  \/ _stop_monitor /\ NoCycleOff
  \/ \E s \in SessIds : run_monitor(s) /\ NoCycleOff
  \/ \E l \in LoopIds : schedule_target(l) /\ NoCycleOff
  \/ \E l \in LoopIds : sem_acquired(l) /\ NoCycleOff
  \/ \E s \in SessIds : cancel_monitor(s) /\ NoCycleOff
  \/ \E l \in LoopIds, r \in Results :
       /\ run_one_target(l, r.success, r.reason)
       /\ ObsOff(cycle(l, r.success, r.reason))
       /\ ObsOffProbe
       /\ UNCHANGED <<ev, hist, began, wasOff, resolved, scheduled, queueVars>>

Spec == Init /\ [][Next]_vars

\* ------------------------------------------------------------------
\* SpecOutage: one OutageState driven by an arbitrary sequence of calls.
call_record_failure ==
  LET r == record_failure(ost)
  IN /\ Len(calls) < MaxCalls
     /\ ost' = r.state
     /\ calls' = Append(calls, [op |-> "failure", prev |-> r.ret[1],
                                flag |-> r.ret[2], after |-> r.state])
     /\ UNCHANGED <<coreVars, obsVars, ping>>

call_record_success ==
  LET r == record_success(ost)
  IN /\ Len(calls) < MaxCalls
     /\ ost' = r.state
     /\ calls' = Append(calls, [op |-> "success", prev |-> r.ret[1],
                                flag |-> r.ret[2], after |-> r.state])
     /\ UNCHANGED <<coreVars, obsVars, ping>>

NextOutage == call_record_failure \/ call_record_success

SpecOutage == Init /\ [][NextOutage]_vars

\* ------------------------------------------------------------------
\* SpecCycle: the scheduler started on any configuration the config file can
\* hold (targets 1..n with any aliases and enabled flags), with the
\* notification settings toggled and monitoring stopped and started at any
\* time; ev shows what each cycle delivered.
InitCycle ==
  /\ ost = "UP"
  /\ calls = <<>>
  /\ ping = PingIdle
  /\ nobj \in 0..MaxObjs
  /\ objs \in [ObjIds -> [alias : Aliases, enabled : BOOLEAN]]
  /\ \A o \in ObjIds : o > nobj => objs[o] = [alias |-> "New", enabled |-> TRUE]
  /\ targets = [i \in 1..nobj |-> i]
  /\ concurrency \in 1..MaxConc
  /\ notifications_enabled \in BOOLEAN
  /\ sound_on_down \in BOOLEAN
  /\ jitter_ms = DEFAULT_JITTER_MS
  /\ sem = [cap |-> 0, value |-> 0, waiters |-> <<>>, loop |-> 0]
  /\ outage_states = [a \in Aliases |-> "none"]
  /\ monitor_task = 0
  /\ sessions = <<>>
  /\ loops = [l \in LoopIds |-> [pc |-> "none", cur |-> 0]]
  /\ InitObs

NoCycleEv == ObsEv(NoCycle) /\ UNCHANGED <<hist, offPub, offProbe, began, wasOff, resolved, scheduled, queueVars>>

NextCycle ==
  \/ \E n \in BOOLEAN, s \in BOOLEAN : _set_config(concurrency, jitter_ms, n, s) /\ NoCycleEv
  \/ _start_monitor /\ NoPendingCancel /\ NoCycleEv
  \/ _stop_monitor /\ NoCycleEv
  \/ \E s \in SessIds : run_monitor(s) /\ NoCycleEv
  \/ \E l \in LoopIds : schedule_target(l) /\ NoCycleEv
  \/ \E l \in LoopIds : sem_acquired(l) /\ NoCycleEv
  \/ \E s \in SessIds : cancel_monitor(s) /\ NoCycleEv
  \/ \E l \in LoopIds, r \in Results :
       /\ run_one_target(l, r.success, r.reason)
       /\ ObsEv(cycle(l, r.success, r.reason))
       /\ UNCHANGED <<hist, offPub, offProbe, began, wasOff, resolved, scheduled, queueVars>>

SpecCycle == InitCycle /\ [][NextCycle]_vars

\* ------------------------------------------------------------------
\* SpecSound: monitoring stopped and started again, with every edit of the
\* target list and every toggle of the notification settings in between and
\* during the sessions. The concurrency limit is MaxConc, the number of
\* targets, so no task ever waits for the limiter; a stopped session's event
\* loop runs the posted cancel before monitoring is started again.
InitSound == Init /\ concurrency = MaxConc

\* A step that runs no cycle, as the observer hist sees it.
NoCycleHist == ObsHist(NoCycle) /\ UNCHANGED <<ev, offPub, offProbe, began, wasOff, resolved, scheduled, queueVars>>

NextSound ==
  \/ _add_row /\ NoCycleHist
  \/ \E row \in 1..MaxObjs : _edit_row(row) /\ NoCycleHist
  \/ \E row \in 1..MaxObjs : _remove_row(row) /\ NoCycleHist
  \/ \E row \in 1..MaxObjs, a \in Aliases : _on_cell_changed(row, a) /\ NoCycleHist
  \/ \E n \in BOOLEAN, s \in BOOLEAN : _set_config(concurrency, jitter_ms, n, s) /\ NoCycleHist
  \/ _start_monitor /\ NoPendingCancel /\ NoCycleHist
  \/ _stop_monitor /\ NoCycleHist
  \/ \E s \in SessIds : run_monitor(s) /\ NoCycleHist
  \/ \E l \in LoopIds : schedule_target(l) /\ NoCycleHist
  \/ \E s \in SessIds : cancel_monitor(s) /\ NoCycleHist
  \/ \E l \in LoopIds, r \in Results :
       /\ run_one_target(l, r.success, r.reason)
       /\ ObsHist(cycle(l, r.success, r.reason))
       /\ UNCHANGED <<ev, offPub, offProbe, began, wasOff, resolved, scheduled, queueVars>>

SpecSound == InitSound /\ [][NextSound]_vars

\* ------------------------------------------------------------------
\* SpecLive: one monitoring session on two targets with distinct aliases;
\* while it runs the user enables and disables targets, and may stop it.
\* The event loop runs every task that is ready, every timer elapses and
\* every probe returns: weak fairness on the scheduler's steps.
InitPair ==
  /\ ost = "UP"
  /\ calls = <<>>
  /\ ping = PingIdle
  /\ nobj = MaxObjs
  /\ objs = [o \in ObjIds |-> [alias |-> IF o = 1 THEN "A" ELSE "New",
                                enabled |-> TRUE]]
  /\ targets = [i \in 1..MaxObjs |-> i]
  /\ concurrency \in 1..MaxConc
  /\ notifications_enabled = TRUE
  /\ sound_on_down = TRUE
  /\ jitter_ms = DEFAULT_JITTER_MS
  /\ sem = [cap |-> 0, value |-> 0, waiters |-> <<>>, loop |-> 0]
  /\ outage_states = [a \in Aliases |-> "none"]
  /\ monitor_task = 0
  /\ sessions = <<>>
  /\ loops = [l \in LoopIds |-> [pc |-> "none", cur |-> 0]]
  /\ ev = NoCycle
  /\ hist = [alias |-> "A", run |-> 0, sounds |-> 0, late |-> FALSE]
  /\ offPub = [o \in ObjIds |-> 0]
  /\ offProbe = FALSE
  /\ began = <<>>
  /\ wasOff = {}
  /\ resolved = [l \in LoopIds |-> ""]
  /\ scheduled = {}
  /\ InitQueues

\* The session's tasks exist: run_monitor has created them.
Running == monitor_task # 0 /\ sessions[monitor_task].st = "run"

LiveRunMonitor(s) == run_monitor(s) /\ NoCycleEv
LiveSchedule(l) == schedule_target(l) /\ NoCycleEv
LiveAcquired(l) == sem_acquired(l) /\ NoCycleEv
LiveCancel(s) == cancel_monitor(s) /\ NoCycleEv
LiveCycle(l) ==
  \E r \in Results :
    /\ run_one_target(l, r.success, r.reason)
    /\ ObsEv(cycle(l, r.success, r.reason))
    /\ UNCHANGED <<hist, offPub, offProbe, began, wasOff, resolved, scheduled, queueVars>>

NextLive ==
  \/ \E row \in 1..MaxObjs : _edit_row(row) /\ Running /\ NoCycleEv
  \/ _start_monitor /\ sessions = <<>> /\ NoCycleEv
  \/ _stop_monitor /\ NoCycleEv
  \/ \E s \in SessIds : LiveRunMonitor(s)
  \/ \E l \in LoopIds : LiveSchedule(l)
  \/ \E l \in LoopIds : LiveAcquired(l)
  \/ \E s \in SessIds : LiveCancel(s)
  \/ \E l \in LoopIds : LiveCycle(l)

FairLive ==
  /\ \A s \in SessIds : WF_vars(LiveRunMonitor(s)) /\ WF_vars(LiveCancel(s))
  /\ \A l \in LoopIds :
       WF_vars(LiveSchedule(l)) /\ WF_vars(LiveAcquired(l)) /\ WF_vars(LiveCycle(l))

SpecLive == InitPair /\ [][NextLive]_vars /\ FairLive

\* ------------------------------------------------------------------
\* SpecStop: monitoring on two targets stopped and started again on the same
\* MonitorState, with any concurrency limit; the target list and the
\* settings are left alone. A stopped session's event loop runs the posted
\* cancel before monitoring is started again.
NextStop ==
  \/ _start_monitor /\ NoPendingCancel /\ NoCycleEv
  \/ _stop_monitor /\ NoCycleEv
  \/ \E s \in SessIds : run_monitor(s) /\ NoCycleEv
  \/ \E l \in LoopIds : schedule_target(l) /\ NoCycleEv
  \/ \E l \in LoopIds : sem_acquired(l) /\ NoCycleEv
  \/ \E s \in SessIds : cancel_monitor(s) /\ NoCycleEv
  \/ \E s \in SessIds : task_destroyed(s) /\ NoCycleEv
  \/ \E l \in LoopIds, r \in Results :
       /\ run_one_target(l, r.success, r.reason)
       /\ ObsEv(cycle(l, r.success, r.reason))
       /\ UNCHANGED <<hist, offPub, offProbe, began, wasOff, resolved, scheduled, queueVars>>

SpecStop == InitPair /\ [][NextStop]_vars

\* ------------------------------------------------------------------
\* SpecSink: one monitoring session on two targets while the user removes
\* and renames targets (aliases stay unique); ev shows what each cycle
\* published, began the order in which the cycles in flight began.
NoCycleSink == ObsEv(NoCycle) /\ ObsBegan /\ UNCHANGED <<hist, offPub, offProbe, wasOff, resolved, scheduled, queueVars>>

NextSink ==
  \/ \E row \in 1..MaxObjs : _remove_row(row) /\ Unique /\ NoCycleSink
  \/ \E row \in 1..MaxObjs, a \in Aliases :
       _on_cell_changed(row, a) /\ Unique /\ NoCycleSink
  \/ _start_monitor /\ sessions = <<>> /\ NoCycleSink
  \/ _stop_monitor /\ NoCycleSink
  \/ \E s \in SessIds : run_monitor(s) /\ NoCycleSink
  \/ \E l \in LoopIds : schedule_target(l) /\ NoCycleSink
  \/ \E l \in LoopIds : sem_acquired(l) /\ NoCycleSink
  \/ \E s \in SessIds : cancel_monitor(s) /\ NoCycleSink
  \/ \E l \in LoopIds, r \in Results :
       /\ run_one_target(l, r.success, r.reason)
       /\ ObsEv(cycle(l, r.success, r.reason))
       /\ ObsBegan
       /\ UNCHANGED <<hist, offPub, offProbe, wasOff, resolved, scheduled, queueVars>>

SpecSink == InitPair /\ [][NextSink]_vars

\* ------------------------------------------------------------------
\* SpecNotify: one monitoring session on two targets with a notifier
\* callback that may raise on any call, while the notification settings are
\* toggled.
NextNotify ==
  \/ \E n \in BOOLEAN, s \in BOOLEAN : _set_config(concurrency, jitter_ms, n, s) /\ NoCycleEv
  \/ _start_monitor /\ sessions = <<>> /\ NoCycleEv
  \/ _stop_monitor /\ NoCycleEv
  \/ \E s \in SessIds : run_monitor(s) /\ NoCycleEv
  \/ \E l \in LoopIds : schedule_target(l) /\ NoCycleEv
  \/ \E l \in LoopIds : sem_acquired(l) /\ NoCycleEv
  \/ \E s \in SessIds : cancel_monitor(s) /\ NoCycleEv
  \/ \E l \in LoopIds, r \in Results, raises \in BOOLEAN :
       /\ run_one_target_notify(l, r.success, r.reason, raises)
       /\ ObsEv(cycle_notify(l, r.success, r.reason, raises))
       /\ UNCHANGED <<hist, offPub, offProbe, began, wasOff, resolved, scheduled, queueVars>>

SpecNotify == InitPair /\ [][NextNotify]_vars

\* ------------------------------------------------------------------
\* SpecPing: one run_ping call on either platform with any timeout, against
\* a ping command that cannot be spawned, exits with any code and output, or
\* never exits. create_subprocess_exec returns or raises, and the timer of
\* wait_for fires: weak fairness on these steps.
Platforms == {"win32", "linux"}
TimeoutsMs == {1, 1000, 1001}
ExitCodes == {0, 1, 2}
ElapsedTimes == {1400, 2225, 2257}
SpawnErrors == {"FileNotFoundError", "PermissionError", "TimeoutError"}

PingSpawn ==
  \/ create_subprocess_exec
  \/ \E e \in SpawnErrors : create_subprocess_exec_raises(e)

NextPing ==
  \/ \E pf \in Platforms, v \in BOOLEAN, t \in TimeoutsMs : run_ping(pf, v, t)
  \/ PingSpawn
  \/ \E rc \in ExitCodes, out \in Outputs, el \in ElapsedTimes :
       communicate_returns(rc, out, el)
  \/ wait_for_expires

SpecPing ==
  InitPair /\ [][NextPing]_vars /\ WF_vars(PingSpawn) /\ WF_vars(wait_for_expires)

\* ------------------------------------------------------------------
\* SpecDisplay: one run_ping call as in SpecPing, whose result is then
\* formatted for display in either display mode.
DisplayModes == {"latency", "codes"}

NextDisplay ==
  \/ \E pf \in Platforms, v \in BOOLEAN, t \in TimeoutsMs : run_ping(pf, v, t)
  \/ create_subprocess_exec
  \/ \E e \in SpawnErrors : create_subprocess_exec_raises(e)
  \/ \E rc \in ExitCodes, out \in Outputs, el \in ElapsedTimes :
       communicate_returns(rc, out, el)
  \/ wait_for_expires
  \/ \E m \in DisplayModes : display(m)

SpecDisplay == InitPair /\ [][NextDisplay]_vars

\* ------------------------------------------------------------------
\* SpecUpdate: the cycles of one target, each a run_ping call as in SpecPing
\* whose result is recorded in the target's OutageState and published.
NextUpdate ==
  \/ \E pf \in Platforms, v \in BOOLEAN, t \in TimeoutsMs : run_ping(pf, v, t)
  \/ create_subprocess_exec
  \/ \E e \in SpawnErrors : create_subprocess_exec_raises(e)
  \/ \E rc \in ExitCodes, out \in Outputs, el \in ElapsedTimes :
       communicate_returns(rc, out, el)
  \/ wait_for_expires
  \/ \E a \in Aliases, m \in DisplayModes : run_one_target_update(a, m)
  \/ next_cycle

SpecUpdate == InitPair /\ [][NextUpdate]_vars

\* ------------------------------------------------------------------
\* SpecTimeout: one run_ping call as in SpecPing with the timeouts that a
\* TargetConfig can hold (max(100, timeout)).
TargetTimeouts == {100, 999, 1000, 1001, 2500}

NextTimeout ==
  \/ \E pf \in Platforms, v \in BOOLEAN, t \in TargetTimeouts : run_ping(pf, v, t)
  \/ create_subprocess_exec
  \/ \E e \in SpawnErrors : create_subprocess_exec_raises(e)
  \/ \E rc \in ExitCodes, out \in Outputs, el \in ElapsedTimes :
       communicate_returns(rc, out, el)
  \/ wait_for_expires

SpecTimeout == InitPair /\ [][NextTimeout]_vars

\* ------------------------------------------------------------------
\* SpecParse: _parse_latency called on any text of at most MaxOut lines.
NextParse == \E text \in ParseTexts : call_parse_latency(text)

SpecParse == InitPair /\ [][NextParse]_vars

\* ------------------------------------------------------------------
\* SpecConc: monitoring on two targets stopped and started again, the user
\* changing the concurrency setting while monitoring is stopped.
NextConc ==
  \/ \E c \in 1..MaxConc :
       /\ monitor_task = 0
       /\ _set_config(c, jitter_ms, notifications_enabled, sound_on_down)
       /\ NoCycleEv
  \/ _start_monitor /\ NoPendingCancel /\ NoCycleEv
  \/ _stop_monitor /\ NoCycleEv
  \/ \E s \in SessIds : run_monitor(s) /\ NoCycleEv
  \/ \E l \in LoopIds : schedule_target(l) /\ NoCycleEv
  \/ \E l \in LoopIds : sem_acquired(l) /\ NoCycleEv
  \/ \E s \in SessIds : cancel_monitor(s) /\ NoCycleEv
  \/ \E s \in SessIds : task_destroyed(s) /\ NoCycleEv
  \/ \E l \in LoopIds, r \in Results :
       /\ run_one_target(l, r.success, r.reason)
       /\ ObsEv(cycle(l, r.success, r.reason))
       /\ UNCHANGED <<hist, offPub, offProbe, began, wasOff, resolved, scheduled, queueVars>>

SpecConc == InitPair /\ [][NextConc]_vars

\* ------------------------------------------------------------------
\* SpecReenable: one monitoring session on two targets while the user
\* disables and enables targets at any time.
NoCycleWasOff ==
  ObsWasOff /\ ObsScheduled /\ UNCHANGED <<ev, hist, offPub, offProbe, began, resolved, queueVars>>

NextReenable ==
  \/ \E row \in 1..MaxObjs : _edit_row(row) /\ NoCycleWasOff
  \/ _start_monitor /\ sessions = <<>> /\ NoCycleWasOff
  \/ _stop_monitor /\ NoCycleWasOff
  \/ \E s \in SessIds : run_monitor(s) /\ NoCycleWasOff
  \/ \E l \in LoopIds : schedule_target(l) /\ NoCycleWasOff
  \/ \E l \in LoopIds : sem_acquired(l) /\ NoCycleWasOff
  \/ \E s \in SessIds : cancel_monitor(s) /\ NoCycleWasOff
  \/ \E l \in LoopIds, r \in Results :
       run_one_target(l, r.success, r.reason) /\ NoCycleWasOff

SpecReenable == InitPair /\ [][NextReenable]_vars

\* ------------------------------------------------------------------
\* SpecEdit: one monitoring session during which the user adds, renames and
\* removes targets; the aliases of the live list stay distinct.
NoCycleEdit ==
  ObsEv(NoCycle) /\ ObsResolved /\ UNCHANGED <<hist, offPub, offProbe, began, wasOff, scheduled, queueVars>>

NextEdit ==
  \/ _add_row /\ Unique /\ NoCycleEdit
  \/ \E row \in 1..MaxObjs : _remove_row(row) /\ NoCycleEdit
  \/ \E row \in 1..MaxObjs, a \in Aliases :
       _on_cell_changed(row, a) /\ Unique /\ NoCycleEdit
  \/ _start_monitor /\ sessions = <<>> /\ NoCycleEdit
  \/ _stop_monitor /\ NoCycleEdit
  \/ \E s \in SessIds : run_monitor(s) /\ NoCycleEdit
  \/ \E l \in LoopIds : schedule_target(l) /\ NoCycleEdit
  \/ \E l \in LoopIds : sem_acquired(l) /\ NoCycleEdit
  \/ \E s \in SessIds : cancel_monitor(s) /\ NoCycleEdit
  \/ \E l \in LoopIds, r \in Results :
       /\ run_one_target(l, r.success, r.reason)
       /\ ObsEv(cycle(l, r.success, r.reason))
       /\ ObsResolved
       /\ UNCHANGED <<hist, offPub, offProbe, began, wasOff, scheduled, queueVars>>

SpecEdit == Init /\ [][NextEdit]_vars

\* ------------------------------------------------------------------
\* SpecAtomic: MaxCallers tasks of one event loop, each calling record_failure
\* or record_success once on the same OutageState, in any order.  The lock is
\* free whenever a task reaches "async with self._lock" (Lock.acquire then
\* returns without suspending) and the body has no await, so a call runs from
\* its first to its last statement within one step of the event loop.
Callers == 1..MaxCallers

Called == {calls[i].caller : i \in 1..Len(calls)}

task_record(c, op) ==
  LET r == IF op = "failure" THEN record_failure(ost) ELSE record_success(ost)
  IN /\ c \notin Called
     /\ ost' = r.state
     /\ calls' = Append(calls, [caller |-> c, op |-> op, prev |-> r.ret[1],
                                flag |-> r.ret[2], after |-> r.state])
     /\ UNCHANGED <<coreVars, obsVars, ping>>

NextAtomic ==
  \/ \E c \in Callers : task_record(c, "failure")
  \/ \E c \in Callers : task_record(c, "success")

SpecAtomic == Init /\ [][NextAtomic]_vars

\* ------------------------------------------------------------------
\* SpecJitter: one monitoring session on two targets; the user sets the two
\* jitter spin boxes (each 0..2000 ms) to any values, at any time.
Jitters == {0, 300, 2000}

NextJitter ==
  \/ \E a \in Jitters, b \in Jitters :
       _set_config(concurrency, <<a, b>>, notifications_enabled, sound_on_down)
         /\ NoCycleEv
  \/ _start_monitor /\ sessions = <<>> /\ NoCycleEv
  \/ _stop_monitor /\ NoCycleEv
  \/ \E s \in SessIds : run_monitor(s) /\ NoCycleEv
  \/ \E l \in LoopIds : schedule_target(l) /\ NoCycleEv
  \/ \E l \in LoopIds : sem_acquired(l) /\ NoCycleEv
  \/ \E s \in SessIds : cancel_monitor(s) /\ NoCycleEv
  \/ \E s \in SessIds : task_destroyed(s) /\ NoCycleEv
  \/ \E l \in LoopIds : LiveCycle(l)

SpecJitter == InitPair /\ [][NextJitter]_vars

\* ------------------------------------------------------------------
\* SpecPublish: one monitoring session on two targets whose two sinks may
\* refuse any update, while the notification settings are toggled.
QueueOutcomes == {"ok", "QueueFull"}
ThreadQueueOutcomes == {"None", "ok", "Full", "error"}

NextPublish ==
  \/ \E n \in BOOLEAN, s \in BOOLEAN : _set_config(concurrency, jitter_ms, n, s) /\ NoCycleEv
  \/ _start_monitor /\ sessions = <<>> /\ NoCycleEv
  \/ _stop_monitor /\ NoCycleEv
  \/ \E s \in SessIds : run_monitor(s) /\ NoCycleEv
  \/ \E l \in LoopIds : schedule_target(l) /\ NoCycleEv
  \/ \E l \in LoopIds : sem_acquired(l) /\ NoCycleEv
  \/ \E s \in SessIds : cancel_monitor(s) /\ NoCycleEv
  \/ \E l \in LoopIds, r \in Results, q \in QueueOutcomes, tq \in ThreadQueueOutcomes :
       /\ run_one_target_publish(l, r.success, r.reason, q, tq)
       /\ ObsEv(cycle_publish(l, r.success, r.reason, q, tq))
       /\ UNCHANGED <<hist, offPub, offProbe, began, wasOff, resolved, scheduled, queueVars>>

SpecPublish == InitPair /\ [][NextPublish]_vars

\* ------------------------------------------------------------------
\* SpecList: the operations of the targets tab in any order, monitoring
\* started or not.
ImportFiles == UNION {[1..n -> Aliases] : n \in 0..MaxObjs}

NextList ==
  \/ _add_row /\ NoCycleEv
  \/ \E row \in 1..MaxObjs : _edit_row(row) /\ NoCycleEv
  \/ \E row \in 1..MaxObjs : _remove_row(row) /\ NoCycleEv
  \/ \E row \in 1..MaxObjs, a \in Aliases : _on_cell_changed(row, a) /\ NoCycleEv
  \/ \E als \in ImportFiles : _import_json(als) /\ NoCycleEv
  \/ _start_monitor /\ sessions = <<>> /\ NoCycleEv
  \/ \E s \in SessIds : run_monitor(s) /\ NoCycleEv

SpecList == Init /\ [][NextList]_vars

\* ------------------------------------------------------------------
\* SpecFair: one monitoring session on targets that stay in the list and
\* enabled, with one or two limiter slots; the user may stop.  The event
\* loop of the session runs every task that is ready, every timer elapses
\* and every probe returns: weak fairness on the steps of the session.
LiveStep(l) == LiveSchedule(l) \/ LiveAcquired(l) \/ LiveCycle(l)

NextFair ==
  \/ _start_monitor /\ sessions = <<>> /\ NoCycleEv
  \/ _stop_monitor /\ NoCycleEv
  \/ LiveRunMonitor(1)
  \/ LiveCancel(1)
  \/ \E o \in ObjIds : LiveStep(<<1, o>>)

\* Whenever the task of a loop is ready to run, the event loop runs it.
FairFirst == \A o \in ObjIds : WF_vars(LiveStep(<<1, o>>))

SpecFair == InitPair /\ [][NextFair]_vars /\ FairFirst

\* ------------------------------------------------------------------
\* SpecRestart: monitoring on two targets stopped and started again on the
\* same MonitorState at any time: _stop_monitor only posts the cancel to the
\* session's event loop, which runs it on its own thread once the callback
\* it is busy with (a cycle whose probe has returned) is through; no timer
\* or wake-up of that event loop is served before the posted cancel.
NextRestart ==
  \/ _start_monitor /\ NoCycleEv
  \/ _stop_monitor /\ NoCycleEv
  \/ \E s \in SessIds : run_monitor(s) /\ NoCycleEv
  \/ \E l \in LoopIds : schedule_target(l) /\ ~sessions[l[1]].cancelReq /\ NoCycleEv
  \/ \E l \in LoopIds : sem_acquired(l) /\ ~sessions[l[1]].cancelReq /\ NoCycleEv
  \/ \E s \in SessIds : cancel_monitor(s) /\ NoCycleEv
  \/ \E s \in SessIds : task_destroyed(s) /\ NoCycleEv
  \/ \E l \in LoopIds : LiveCycle(l)

SpecRestart == InitPair /\ [][NextRestart]_vars

\* ==================================================================
\* Properties
\* ==================================================================
\* The status the OutageState had immediately before call i.
StatusBefore(i) == IF i = 1 THEN "UP" ELSE calls[i - 1].after

LastStatus == IF calls = <<>> THEN "UP" ELSE calls[Len(calls)].after

\* C1: every record_failure call returns (status before the call, flag) with
\* the flag true exactly when that status was UP, and leaves the status DOWN.
C1_RecordFailure ==
  /\ ost = LastStatus
  /\ \A i \in 1..Len(calls) :
       calls[i].op = "failure" =>
         /\ calls[i].flag = (StatusBefore(i) = "UP")
         /\ calls[i].prev = StatusBefore(i)
         /\ calls[i].after = "DOWN"

W_C1 ==
  \E i, j, k \in 1..Len(calls) :
    /\ i < j /\ j < k
    /\ calls[i].op = "failure" /\ calls[i].flag
    /\ calls[j].op = "failure" /\ ~calls[j].flag
    /\ calls[k].op = "failure" /\ calls[k].flag

\* C2: every record_success call returns (status before the call, flag) with
\* the flag true exactly when that status was DOWN, and leaves the status UP;
\* the first success after a failure carries the flag and no two flagged
\* successes follow each other without a failure in between.
C2_RecordSuccess ==
  /\ ost = LastStatus
  /\ \A i \in 1..Len(calls) :
       calls[i].op = "success" =>
         /\ calls[i].flag = (StatusBefore(i) = "DOWN")
         /\ calls[i].prev = StatusBefore(i)
         /\ calls[i].after = "UP"
  /\ \A i \in 2..Len(calls) :
       (calls[i].op = "success" /\ calls[i - 1].op = "failure") => calls[i].flag
  /\ \A i, j \in 1..Len(calls) :
       (i < j /\ calls[i].op = "success" /\ calls[i].flag
              /\ calls[j].op = "success" /\ calls[j].flag)
         => \E k \in (i + 1)..(j - 1) : calls[k].op = "failure"

W_C2 ==
  \E i \in 1..Len(calls) :
    /\ i + 2 <= Len(calls)
    /\ calls[i].op = "failure"
    /\ calls[i + 1].op = "success" /\ calls[i + 1].flag
    /\ calls[i + 2].op = "success" /\ ~calls[i + 2].flag

Flagged == {i \in 1..Len(calls) : calls[i].flag}

\* C3: the calls that return a true flag alternate between first-failure and
\* recovery, starting with a first-failure; failure, failure, success,
\* failure returns true, false, true, true.
C3_FlagsAlternate ==
  /\ \A i \in Flagged :
       LET earlier == {j \in Flagged : j < i}
       IN IF earlier = {}
            THEN calls[i].op = "failure"
            ELSE calls[i].op #
                   calls[CHOOSE j \in earlier : \A k \in earlier : k <= j].op
  /\ (Len(calls) >= 4
        /\ <<calls[1].op, calls[2].op, calls[3].op, calls[4].op>>
             = <<"failure", "failure", "success", "failure">>)
       => <<calls[1].flag, calls[2].flag, calls[3].flag, calls[4].flag>>
             = <<TRUE, FALSE, TRUE, TRUE>>

W_C3 ==
  /\ Len(calls) >= 5
  /\ <<calls[1].op, calls[2].op, calls[3].op, calls[4].op, calls[5].op>>
       = <<"failure", "failure", "success", "failure", "success">>

\* C4: any number of consecutive record_success calls that start on status UP
\* each return (UP, false) and leave the status UP.
C4_SuccessIdempotent ==
  \A i, j \in 1..Len(calls) :
    (i <= j /\ StatusBefore(i) = "UP" /\ \A k \in i..j : calls[k].op = "success")
      => \A k \in i..j :
           /\ calls[k].prev = "UP"
           /\ ~calls[k].flag
           /\ calls[k].after = "UP"

W_C4 ==
  \E i \in 1..Len(calls) :
    /\ i + 2 <= Len(calls)
    /\ StatusBefore(i) = "UP"
    /\ \A k \in i..(i + 2) : calls[k].op = "success"
    /\ ost = "UP"

\* The run_ping calls that have not returned.
InFlight == {l \in LoopIds : loops[l].pc = "probe"}

EnabledTargets == {i \in 1..Len(targets) : objs[targets[i]].enabled}

\* C5: at most as many probes are in flight as the concurrency limit allows.
C5_ConcurrencyBound == Cardinality(InFlight) <= concurrency

W_C5 ==
  /\ Cardinality(EnabledTargets) > concurrency
  /\ Cardinality(InFlight) = concurrency
  /\ \E l \in LoopIds : loops[l].pc = "wait"

\* C6: for every alias at most one probe is in flight at any instant (one
\* session, started on a list with unique aliases that stay unique).
C6_OneProbePerAlias ==
  \A a \in Aliases :
    Cardinality({l \in InFlight : objs[loops[l].cur].alias = a}) <= 1

\* C7: a failed cycle delivers, when notifications are enabled, exactly one
\* "<alias> is DOWN: <reason>" notification whose play_sound is the
\* first-failure flag and sound-on-down; when they are disabled, nothing.
C7_FailureNotification ==
  (ev.kind = "cycle" /\ ~ev.success) =>
    IF notifications_enabled
      THEN /\ Len(ev.notes) = 1
           /\ ev.notes[1].kind = "down"
           /\ ev.notes[1].alias = ev.alias
           /\ ev.notes[1].reason = ev.reason
           /\ ev.notes[1].play_sound = (ev.flag /\ sound_on_down)
      ELSE ev.notes = <<>>

W_C7 ==
  /\ ev.kind = "cycle" /\ ~ev.success
  /\ notifications_enabled /\ sound_on_down /\ ev.flag
  /\ Len(ev.notes) = 1 /\ ev.notes[1].play_sound

\* C8: a successful cycle delivers a notification exactly when record_success
\* returned the recovery flag and notifications are enabled; it is the
\* "reachable again" message without sound; the update is published either way.
C8_SuccessNotification ==
  (ev.kind = "cycle" /\ ev.success) =>
    /\ (ev.notes # <<>>) = (ev.flag /\ notifications_enabled)
    /\ ev.notes # <<>> =>
         /\ Len(ev.notes) = 1
         /\ ev.notes[1].kind = "up"
         /\ ev.notes[1].alias = ev.alias
         /\ ~ev.notes[1].play_sound
    /\ ev.pub = <<[alias |-> ev.alias, success |-> TRUE]>>

W_C8 ==
  /\ ev.kind = "cycle" /\ ev.success
  /\ ev.flag /\ notifications_enabled
  /\ Len(ev.notes) = 1 /\ ev.notes[1].kind = "up"

\* C9: within one run of consecutive failed cycles of any alias at most one
\* notification has play_sound=True, and it comes from the first cycle of
\* the run.
C9_OneSoundPerOutage == hist.sounds <= 1 /\ ~hist.late

W_C9 ==
  /\ hist.run = 2 /\ hist.sounds = 1
  /\ Len(sessions) = 2

\* C10: once a target is disabled or removed, at most one more update is
\* published for it, and no loop whose alias does not resolve to an enabled
\* target begins another cycle.
C10_DisabledStops ==
  /\ ~offProbe
  /\ \A o \in ObjIds : offPub[o] <= 1

\* Target o is enabled in a running session although its loop has returned.
Reenabled(o) ==
  /\ Running
  /\ InList(targets, o) /\ objs[o].enabled
  /\ loops[<<monitor_task, o>>].pc = "none"

\* C11: a target that was disabled long enough for its loop to stop and is
\* then re-enabled while the session runs eventually gets an update
\* published for its alias (unless it is disabled again or monitoring is
\* stopped).
C11_ReenableResumes ==
  \A o \in ObjIds :
    Reenabled(o) ~> \/ ev.kind = "cycle" /\ ev.alias = objs[o].alias
                    \/ ~objs[o].enabled
                    \/ monitor_task = 0

\* Every task of session s has ended.
AllDone(s) == \A o \in ObjIds : loops[<<s, o>>].pc = "none"

\* C12: once the cancel of a session is posted, the session closes with every
\* one of its loops ended, whatever each was suspended on, and a loop of a
\* closed session never runs again.
C12_CancelTerminates ==
  /\ \A s \in SessIds :
       (s <= Len(sessions) /\ sessions[s].cancelReq)
         ~> (s <= Len(sessions) /\ sessions[s].st = "closed" /\ AllDone(s))
  /\ [][\A l \in LoopIds :
          (l[1] <= Len(sessions) /\ sessions[l[1]].st = "closed")
            => loops'[l].pc = "none"]_vars

W_C12 ==
  \E s \in SessIds :
    /\ s <= Len(sessions)
    /\ sessions[s].st = "closed" /\ AllDone(s)
    /\ sem.loop = s /\ sem.value = sem.cap

\* The cycles that hold a slot of the limiter.
Holders == {l \in LoopIds : loops[l].pc \in {"probe", "granted"}}

\* Session s has ended: stopped, all its loops finished, or a loop error.
Ended(s) ==
  \/ sessions[s].st \in {"closed", "crashed"}
  \/ sessions[s].st = "run" /\ AllDone(s)

\* C13: the limiter's free permits plus the number of cycles holding a slot
\* is its capacity, and once every session has ended (stopped, all loops
\* finished, or a loop error) the limiter is back at full capacity.
C13_LimiterRestored ==
  /\ sem.cap # 0 => sem.value + Cardinality(Holders) = sem.cap
  /\ (sessions # <<>> /\ \A s \in 1..Len(sessions) : Ended(s))
       => sem.value = sem.cap

\* C14: when a session starts, the OutageState of every target of the list
\* is UP.
C14_StartsUp ==
  \A s \in 1..Len(sessions) :
    sessions[s].st = "new" =>
      \A i \in 1..Len(targets) : outage_states[objs[targets[i]].alias] = "UP"

\* Loop l has not ended, but its session was ended by the error of another
\* loop: it is suspended for good.
Stalled(l) ==
  /\ l[1] <= Len(sessions)
  /\ sessions[l[1]].st = "crashed"
  /\ loops[l].pc # "none"

\* C16: no loop is stopped or left suspended, and no limiter slot is left
\* taken, because another loop of the session raised an error.
C16_ErrorIsolation == \A l \in LoopIds : ~Stalled(l)

\* The cycles in flight on target o, in the order they began.
BeganOn(o) == SelectSeq(began, LAMBDA l : loops[l].cur = o)

\* C15: a cycle that completes publishes exactly one update, for its alias,
\* and it is the cycle that began first among the cycles in flight on its
\* target: the updates of a target appear in the order its cycles ran.
C15_UpdatesInOrder ==
  [][ev'.kind = "cycle" =>
       /\ Len(ev'.pub) = 1
       /\ ev'.pub[1].alias = ev'.alias
       /\ loops'[BeganOn(ev'.obj)[1]].pc # "probe"]_vars

\* C17: a cycle whose notifier callback raised leaves the status that
\* record_success or record_failure set, publishes its update, and its loop
\* goes to sleep in a session that keeps running; no cycle invokes the
\* notifier more than once.
C17_CallbackFailureSwallowed ==
  [][/\ ev'.kind = "cycle_raised" =>
          /\ outage_states'[ev'.alias] = ev'.state
          /\ Len(ev'.pub) = 1 /\ ev'.pub[1].alias = ev'.alias
          /\ \E l \in LoopIds :
               /\ loops[l].pc = "probe" /\ loops'[l].pc = "sleep"
               /\ sessions'[l[1]].st = "run"
     /\ Len(ev'.notes) <= 1]_vars

W_C17 ==
  /\ ev.kind = "cycle_raised" /\ ~ev.success /\ ev.flag
  /\ outage_states[ev.alias] = "DOWN"
  /\ \E l \in LoopIds : loops[l].pc = "sleep"

\* C18: whatever the ping command does, a run_ping call that has started
\* eventually returns a PingResult and never raises; when the timeout of
\* wait_for expires the result is (False, None, "TIMEOUT").
C18_RunPingReturns ==
  /\ (ping.pc = "start") ~> (ping.pc = "done")
  /\ [](ping.pc = "done" =>
          /\ ping.ret.kind = "return"
          /\ ping.ret.success \in BOOLEAN
          /\ (ping.how = "expired" =>
                /\ ~ping.ret.success
                /\ ping.ret.reason = "TIMEOUT"
                /\ ping.ret.latency_ms = <<>>))

W_C18 ==
  /\ ping.pc = "done" /\ ping.how = "expired"
  /\ ping.ret.kind = "return"

\* Lines that carry a timeout indicator, an unreachable indicator.
TimeoutLines == {"Request timed out.", "TIMEOUT"}
UnreachableLines == {"Destination Host Unreachable"}

HasLine(out, ls) == \E i \in 1..Len(out) : out[i] \in ls

C20_SpawnFailureIsTimeout ==
  (ping.pc = "done" /\ ping.how = "spawn_failed") =>
    /\ ~ping.ret.success
    /\ ping.ret.reason = "TIMEOUT"
    /\ ping.ret.latency_ms = <<>>

\* C20 as amended: when the ping command cannot be spawned the result is
\* (False, None, "ERROR:<name of the exception type>"), unless the spawn
\* error is of the class that wait_for raises on expiry (TimeoutError from
\* Python 3.11 on): that one gives "TIMEOUT".
C20_SpawnFailureIsError ==
  (ping.pc = "done" /\ ping.how = "spawn_failed") =>
    /\ ping.ret.kind = "return"
    /\ ~ping.ret.success
    /\ ping.ret.latency_ms = <<>>
    /\ ping.ret.reason =
         IF ping.exc = "TimeoutError" /\ ping.py311 THEN "TIMEOUT"
         ELSE IF ping.exc = "FileNotFoundError" THEN "ERROR:FileNotFoundError"
         ELSE IF ping.exc = "PermissionError" THEN "ERROR:PermissionError"
         ELSE "ERROR:TimeoutError"

W_C20 ==
  /\ ping.pc = "done" /\ ping.how = "spawn_failed"
  /\ ping.ret.reason = "ERROR:FileNotFoundError"

\* C21: in mode codes a success shows "200", a failure with reason TIMEOUT
\* "408" and every other failure "503"; in mode latency the detail string
\* is shown unchanged.
C21_DisplayDetail ==
  ping.pc = "shown" =>
    IF ping.mode = "codes"
      THEN ping.detail = IF ping.ret.success THEN "200"
                         ELSE IF ping.ret.reason = "TIMEOUT" THEN "408"
                         ELSE "503"
      ELSE ping.detail = IF ping.ret.success
                           THEN FormatLatency(ping.ret.latency_ms)
                           ELSE ping.ret.reason

\* The number (in tenths) that follows a time= or time: keyword and
\* precedes the unit ms, in any case; the number that immediately precedes
\* the unit ms, in any case.
TimeNumber(w) ==
  CASE w \in {"time=23ms", "TIME=23MS"} -> <<230>>
    [] w = "time=12.3 ms" -> <<123>>
    [] w = "time: 5 ms" -> <<50>>
    [] OTHER -> <<>>

MsNumber(w) ==
  CASE w \in {"42.5 ms", "42.5 MS"} -> <<425>>
    [] w = "7 ms" -> <<70>>
    [] OTHER -> TimeNumber(w)

FirstNumber(kind, text) ==
  LET Num(w) == IF kind = "time" THEN TimeNumber(w) ELSE MsNumber(w)
      idx == {i \in 1..Len(text) : Num(text[i]) # <<>>}
  IN IF idx = {} THEN <<>> ELSE Num(text[CHOOSE i \in idx : \A j \in idx : i <= j])

\* C22: _parse_latency returns the number that immediately precedes a
\* case-insensitive "ms": the one of the first time= match if there is one,
\* also when a bare number-ms comes earlier, else the first bare one, else
\* None.
C22_ParseLatency ==
  \A i \in 1..Len(calls) :
    calls[i].op = "_parse_latency" =>
      calls[i].ret =
        IF FirstNumber("time", calls[i].arg) # <<>>
          THEN FirstNumber("time", calls[i].arg)
          ELSE FirstNumber("ms", calls[i].arg)

\* C23: the probes in flight in a session never exceed the concurrency
\* setting as it was when the session was started (the setting is changed
\* only between sessions).
C23_ConcurrencyInForce ==
  monitor_task # 0 =>
    Cardinality({l \in InFlight : l[1] = monitor_task}) <= concurrency

\* C24: a loop whose target was disabled while it ran begins no further
\* cycle, also when the target has been enabled again in the meantime.
C24_OldLoopStops ==
  [][\A l \in wasOff :
       ~(loops[l].pc = "sleep" /\ loops'[l].pc \in {"wait", "probe"})]_vars

\* C25: the alias whose OutageState a cycle updates, and the alias of the
\* update it publishes, is the alias the target had when the cycle started,
\* whatever edits were made while the cycle was in progress.
C25_EditsNextCycle ==
  [][\A l \in LoopIds :
       (loops[l].pc = "probe" /\ loops'[l].pc # "probe" /\ ev'.kind = "cycle")
         => /\ ev'.alias = resolved[l]
            /\ \A i \in 1..Len(ev'.pub) : ev'.pub[i].alias = resolved[l]]_vars

\* C26: while a session runs, the scheduler holds as many OutageState
\* instances as targets have had a polling loop started in that session.
\* (Each instance is stored under exactly one alias: outage_states is a
\* function of the alias.)
States == {a \in Aliases : outage_states[a] # "none"}

C26_OneStatePerScheduled ==
  Running => Cardinality(States) = Cardinality({l \in scheduled : l[1] = monitor_task})

C28_SlotReleasedFirst ==
  [][\A l \in LoopIds :
       (loops[l].pc = "probe" /\ loops'[l].pc # "probe" /\ ev'.kind = "cycle")
         => free_at_publish = sem.cap - Cardinality(Holders \ {l})]_vars

\* C29: whatever the two jitter settings are, no loop ends with an unhandled
\* error (which would end its session's run_monitor with that error).
C29_JitterAnyRange ==
  \A s \in 1..Len(sessions) : sessions[s].st # "crashed"

\* C30: a cycle that finds no OutageState under its target's alias creates
\* one in status UP, stores it under that alias and completes normally
\* (records the result in it, publishes its update and goes to sleep); an
\* OutageState that is stored is never removed, and its status changes only
\* through a record_ call of a cycle on that same instance (which returns
\* the status it had), never by a fresh instance taking its place.
C30_LazyState ==
  [][/\ \A l \in LoopIds :
          (loops[l].pc = "probe" /\ ev'.kind = "cycle" /\ loops'[l].pc # "probe"
             /\ ev'.created)
            => /\ ev'.prev = "UP"
               /\ outage_states'[ev'.alias] = ev'.state
               /\ Len(ev'.pub) = 1
               /\ loops'[l].pc = "sleep"
     /\ \A a \in Aliases :
          outage_states[a] # "none"
            => /\ outage_states'[a] # "none"
               /\ outage_states'[a] # outage_states[a]
                    => /\ ev'.kind = "cycle" /\ ev'.alias = a
                       /\ ev'.prev = outage_states[a]
                       /\ ev'.state = outage_states'[a]]_vars

W_C30 ==
  /\ ev.kind = "cycle" /\ ev.created
  /\ ~ev.success
  /\ outage_states[ev.alias] = "DOWN"

C32_PublishNeverBlocks ==
  [][ev'.kind = "cycle_dropped" =>
       /\ outage_states'[ev'.alias] = ev'.state
       /\ ev'.notes = notify_calls(ev'.alias, ev'.success, ev'.reason, ev'.flag,
                                   notifications_enabled, sound_on_down)
       /\ Len(ev'.pub) = (IF ev'.q = "ok" THEN 1 ELSE 0)
       /\ Len(ev'.tpub) = (IF ev'.tq = "ok" THEN 1 ELSE 0)
       /\ \E l \in LoopIds :
            /\ loops[l].pc = "probe" /\ loops'[l].pc = "sleep"
            /\ sessions'[l[1]].st = "run"]_vars

W_C32 ==
  /\ ev.kind = "cycle_dropped" /\ ev.q = "QueueFull" /\ ev.tq = "ok"
  /\ ~ev.success /\ ev.flag /\ Len(ev.notes) = 1
  /\ outage_states[ev.alias] = "DOWN"
  /\ \E l \in LoopIds : loops[l].pc = "sleep"

\* C33: for a timeout t >= 100 ms the timeout of wait_for is at least 2 s
\* longer than the timeout given to the ping command and at least t + 2000
\* ms; off Windows the command gets t rounded up to whole seconds, at least
\* one.
WholeSecondsUp(t) == CHOOSE n \in 0..(t + 1) : n * 1000 >= t /\ (n - 1) * 1000 < t

C33_HarnessSlack ==
  (ping.pc # "idle" /\ ping.timeout_ms >= 100) =>
    LET t == ping.timeout_ms
        pf == ping.platform
    IN /\ HarnessTimeout(pf, t) >= CommandTimeout(pf, t) + 2000
       /\ HarnessTimeout(pf, t) >= t + 2000
       /\ pf # "win32" =>
            /\ CommandTimeout(pf, t) = WholeSecondsUp(t) * 1000
            /\ CommandTimeout(pf, t) >= 1000

W_C33 ==
  /\ ping.pc = "done" /\ ping.how = "expired"
  /\ ping.platform = "linux" /\ ping.timeout_ms = 1001

\* C34: no two targets of the live list have the same alias.
C34_AliasesUnique == ~HasDup(targets, objs)

\* C35: while the session runs, every target is probed again and again: from
\* any state of the running session each loop reaches its next probe, unless
\* the user stops the session first.
C35_NoStarvation ==
  \A o \in ObjIds :
    Running ~> (loops[<<1, o>>].pc = "probe" \/ monitor_task = 0)

W_C35 ==
  /\ Running /\ concurrency = 1
  /\ loops[<<1, 1>>].pc = "wait" /\ loops[<<1, 2>>].pc = "probe"
  /\ outage_states["A"] = "DOWN" /\ outage_states["New"] = "DOWN"

\* C36: at no time do two sessions have a loop inside a cycle (waiting for
\* the limiter or holding one of its slots): the loops of a stopped session
\* do not operate on the MonitorState together with those of a later one.
Operating(s) == \E o \in ObjIds : loops[<<s, o>>].pc \in {"wait", "granted", "probe"}

C36_OneSessionAtATime ==
  \A s, t \in SessIds : (Operating(s) /\ Operating(t)) => s = t

\* ------------------------------------------------------------------
\* SpecQueue: the two queues of one MonitorState over its sessions, in the
\* window (the poll timer drains the thread-safe queue) and headless (no
\* thread-safe queue at all).
MaxCycles == 3       \* cycles completed on one MonitorState

\* completed: the cycles that have run to their end.
ObsCompleted(d) == completed' = completed + (IF d.kind = "cycle" THEN 1 ELSE 0)

\* The end of run_one_target: the update goes on the asyncio queue, which
\* is unbounded, and on the thread-safe queue when there is one.
run_one_target_queues(pub) ==
  /\ _queue' = IF put_nowait("ok").accepted THEN _queue \o pub ELSE _queue
  /\ thread_safe_queue' =
       IF thread_safe_queue.present /\ put("ok").accepted
         THEN [thread_safe_queue EXCEPT !.items = @ \o pub]
         ELSE thread_safe_queue

\* run_headless: a MonitorState without thread-safe queue, and run_monitor
\* on it.
run_headless ==
  /\ sessions = <<>>
  /\ _start_monitor
  /\ thread_safe_queue' = [present |-> FALSE, items |-> <<>>]
  /\ UNCHANGED <<_queue, completed>>

_drain_monitor_queue_asyncio ==
  /\ thread_safe_queue.present
  /\ thread_safe_queue.items # <<>>
  /\ thread_safe_queue' = [thread_safe_queue EXCEPT !.items = <<>>]
  /\ _queue' = <<>>
  /\ UNCHANGED <<outageVars, coreVars, completed>>

\* MainWindow._drain_monitor_queue, on the poll timer: get_nowait on the
\* thread-safe queue until it is empty.
_drain_monitor_queue ==
  /\ thread_safe_queue.present
  /\ thread_safe_queue.items # <<>>
  /\ thread_safe_queue' = [thread_safe_queue EXCEPT !.items = <<>>]
  /\ UNCHANGED <<outageVars, coreVars, _queue, completed>>

NoCycleQueue ==
  ObsEv(NoCycle) /\ UNCHANGED <<hist, offPub, offProbe, began, wasOff, resolved, scheduled>>

QueueCycle(l) ==
  \E r \in Results :
    /\ completed < MaxCycles
    /\ run_one_target(l, r.success, r.reason)
    /\ ObsEv(cycle(l, r.success, r.reason))
    /\ ObsCompleted(cycle(l, r.success, r.reason))
    /\ run_one_target_queues(cycle(l, r.success, r.reason).pub)
    /\ UNCHANGED <<hist, offPub, offProbe, began, wasOff, resolved, scheduled>>

NextQueue ==
  \/ _start_monitor /\ thread_safe_queue.present /\ NoPendingCancel /\ NoCycleEv
  \/ run_headless /\ NoCycleQueue
  \/ _stop_monitor /\ NoCycleEv
  \/ \E s \in SessIds : run_monitor(s) /\ NoCycleEv
  \/ \E l \in LoopIds : schedule_target(l) /\ NoCycleEv
  \/ \E l \in LoopIds : sem_acquired(l) /\ NoCycleEv
  \/ \E s \in SessIds : cancel_monitor(s) /\ NoCycleEv
  \/ _drain_monitor_queue /\ NoCycleQueue
  \/ \E l \in LoopIds : QueueCycle(l)

SpecQueue == InitPair /\ [][NextQueue]_vars

====
